---- MODULE Spec2Model ----
(***************************************************************************)
(* Model of the enrollment bot in src/main.py: the SQLite store            *)
(* (enrollments, group_limits), the per-user FSM session (state + data),   *)
(* the message router and its handlers, and try_enroll, the capacity       *)
(* checked insert under BEGIN IMMEDIATE.                                   *)
(*                                                                         *)
(* Texts are sequences of one-character strings so that strip, split,     *)
(* join and digit counting are computed as Python computes them.  The      *)
(* Cyrillic and emoji literals of the source are written in ASCII with the *)
(* same token structure (number of whitespace-separated words).  A         *)
(* character outside ASCII that the text functions tell apart is written   *)
(* by its code point, as in "U+0663".                                      *)
(*                                                                         *)
(* The handlers are coroutines of one event loop: a handler runs without   *)
(* interruption until it awaits a network call (the FSM storage is in      *)
(* memory and try_enroll is synchronous).  A handler that has code left    *)
(* after such a call is split there: it is counted in `waiting` while the  *)
(* call is out and resumes in an action of its own, so that other handlers *)
(* of the same user may run in between.  An answer that is the last        *)
(* statement of its handler is taken as delivered.                         *)
(***************************************************************************)
EXTENDS Integers, Sequences, FiniteSets

\* ------------------------------------------------------------------ bounds
NumUsers == 2
MaxSeats == 2
MaxNameLen == 4
MaxWaiting == 2
MaxRun == 10

Users == 1..NumUsers

\* ------------------------------------------------------- program constants
DEFAULT_GROUP_LIMIT == 10
\* os.getenv("DIRECTOR_USERNAME"): not set
DIRECTOR_USERNAME == <<"<None>">>

\* Python's None where a text is expected (distinct from every text)
PyNone == <<"<None>">>
\* None where a numeric Telegram id is expected (ids are positive)
NoId == 0
\* a Telegram id that is none of the chatting users (the administrator)
AdminUser == NumUsers + 1

\* "9–11 лет", "12–14 лет"
AG_9_11 == <<"9", "-", "1", "1", " ", "y">>
AG_12_14 == <<"1", "2", "-", "1", "4", " ", "y">>
AGE_GROUPS == <<AG_9_11, AG_12_14>>
AgeGroupSet == {AGE_GROUPS[i] : i \in 1..Len(AGE_GROUPS)}

\* trigger texts of the router filters
\* "/start", "start", "Меню"
T_START == <<"/", "s", "t", "a", "r", "t">>
T_START2 == <<"s", "t", "a", "r", "t">>
T_MENU == <<"M", "e", "n", "u">>
START_TEXTS == {T_START, T_START2, T_MENU}
\* "Записаться на пробное занятие"
T_ENROLL == <<"E", "n", "r", "o", "l", "l", " ", "f", "o", "r", " ", "a", " ", "t", "r", "i", "a", "l">>
\* "Задать вопрос"
T_ASK == <<"A", "s", "k", " ", "q", "u", "e", "s", "t", "i", "o", "n">>
\* "Контакты"
T_CONTACTS == <<"C", "o", "n", "t", "a", "c", "t", "s">>
\* "✅ Подтвердить"
T_CONFIRM == <<"V", " ", "C", "o", "n", "f", "i", "r", "m">>
\* "✏️ Изменить"
T_EDIT == <<"E", " ", "E", "d", "i", "t">>

\* ------------------------------------------------------------ sample inputs
PH_MANUAL_OK == <<"\r", "8", "9", "0", "0", "1", "2", "3", "4", "5", "6", "7", "U+00A0">>
PH_MANUAL_SHORT == <<"1", "2", "3", "4", "U+0663">>
\* eleven characters with a digit value, one of them no decimal digit
PH_CIRCLED == <<"1", "2", "3", "4", "5", "6", "7", "8", "9", "0", "U+2460">>
PH_CONTACT_OK == <<"8", "9", "0", "0", "1", "2", "3", "4", "5", "6", "7">>
PH_CONTACT_SHORT == <<"1", "1", "2">>
NM_OK == <<" ", "\r", "I", "v", "a", "n", " ", "U+00A0", " ", "P", "e", "t", "r", "o", "v", " ", " ">>
NM_ONE == <<"I", "v", "a", "n">>

\* ---------------------------------------------------------- text functions
\* \d of a str pattern: the Unicode decimal digits (category Nd), all 660 of
\* them
DecimalDigits ==
    {"0", "1", "2", "3", "4", "5", "6", "7",
     "8", "9", "U+0660", "U+0661", "U+0662", "U+0663", "U+0664", "U+0665",
     "U+0666", "U+0667", "U+0668", "U+0669", "U+06F0", "U+06F1", "U+06F2", "U+06F3",
     "U+06F4", "U+06F5", "U+06F6", "U+06F7", "U+06F8", "U+06F9", "U+07C0", "U+07C1",
     "U+07C2", "U+07C3", "U+07C4", "U+07C5", "U+07C6", "U+07C7", "U+07C8", "U+07C9",
     "U+0966", "U+0967", "U+0968", "U+0969", "U+096A", "U+096B", "U+096C", "U+096D",
     "U+096E", "U+096F", "U+09E6", "U+09E7", "U+09E8", "U+09E9", "U+09EA", "U+09EB",
     "U+09EC", "U+09ED", "U+09EE", "U+09EF", "U+0A66", "U+0A67", "U+0A68", "U+0A69",
     "U+0A6A", "U+0A6B", "U+0A6C", "U+0A6D", "U+0A6E", "U+0A6F", "U+0AE6", "U+0AE7",
     "U+0AE8", "U+0AE9", "U+0AEA", "U+0AEB", "U+0AEC", "U+0AED", "U+0AEE", "U+0AEF",
     "U+0B66", "U+0B67", "U+0B68", "U+0B69", "U+0B6A", "U+0B6B", "U+0B6C", "U+0B6D",
     "U+0B6E", "U+0B6F", "U+0BE6", "U+0BE7", "U+0BE8", "U+0BE9", "U+0BEA", "U+0BEB",
     "U+0BEC", "U+0BED", "U+0BEE", "U+0BEF", "U+0C66", "U+0C67", "U+0C68", "U+0C69",
     "U+0C6A", "U+0C6B", "U+0C6C", "U+0C6D", "U+0C6E", "U+0C6F", "U+0CE6", "U+0CE7",
     "U+0CE8", "U+0CE9", "U+0CEA", "U+0CEB", "U+0CEC", "U+0CED", "U+0CEE", "U+0CEF",
     "U+0D66", "U+0D67", "U+0D68", "U+0D69", "U+0D6A", "U+0D6B", "U+0D6C", "U+0D6D",
     "U+0D6E", "U+0D6F", "U+0DE6", "U+0DE7", "U+0DE8", "U+0DE9", "U+0DEA", "U+0DEB",
     "U+0DEC", "U+0DED", "U+0DEE", "U+0DEF", "U+0E50", "U+0E51", "U+0E52", "U+0E53",
     "U+0E54", "U+0E55", "U+0E56", "U+0E57", "U+0E58", "U+0E59", "U+0ED0", "U+0ED1",
     "U+0ED2", "U+0ED3", "U+0ED4", "U+0ED5", "U+0ED6", "U+0ED7", "U+0ED8", "U+0ED9",
     "U+0F20", "U+0F21", "U+0F22", "U+0F23", "U+0F24", "U+0F25", "U+0F26", "U+0F27",
     "U+0F28", "U+0F29", "U+1040", "U+1041", "U+1042", "U+1043", "U+1044", "U+1045",
     "U+1046", "U+1047", "U+1048", "U+1049", "U+1090", "U+1091", "U+1092", "U+1093",
     "U+1094", "U+1095", "U+1096", "U+1097", "U+1098", "U+1099", "U+17E0", "U+17E1",
     "U+17E2", "U+17E3", "U+17E4", "U+17E5", "U+17E6", "U+17E7", "U+17E8", "U+17E9",
     "U+1810", "U+1811", "U+1812", "U+1813", "U+1814", "U+1815", "U+1816", "U+1817",
     "U+1818", "U+1819", "U+1946", "U+1947", "U+1948", "U+1949", "U+194A", "U+194B",
     "U+194C", "U+194D", "U+194E", "U+194F", "U+19D0", "U+19D1", "U+19D2", "U+19D3",
     "U+19D4", "U+19D5", "U+19D6", "U+19D7", "U+19D8", "U+19D9", "U+1A80", "U+1A81",
     "U+1A82", "U+1A83", "U+1A84", "U+1A85", "U+1A86", "U+1A87", "U+1A88", "U+1A89",
     "U+1A90", "U+1A91", "U+1A92", "U+1A93", "U+1A94", "U+1A95", "U+1A96", "U+1A97",
     "U+1A98", "U+1A99", "U+1B50", "U+1B51", "U+1B52", "U+1B53", "U+1B54", "U+1B55",
     "U+1B56", "U+1B57", "U+1B58", "U+1B59", "U+1BB0", "U+1BB1", "U+1BB2", "U+1BB3",
     "U+1BB4", "U+1BB5", "U+1BB6", "U+1BB7", "U+1BB8", "U+1BB9", "U+1C40", "U+1C41",
     "U+1C42", "U+1C43", "U+1C44", "U+1C45", "U+1C46", "U+1C47", "U+1C48", "U+1C49",
     "U+1C50", "U+1C51", "U+1C52", "U+1C53", "U+1C54", "U+1C55", "U+1C56", "U+1C57",
     "U+1C58", "U+1C59", "U+A620", "U+A621", "U+A622", "U+A623", "U+A624", "U+A625",
     "U+A626", "U+A627", "U+A628", "U+A629", "U+A8D0", "U+A8D1", "U+A8D2", "U+A8D3",
     "U+A8D4", "U+A8D5", "U+A8D6", "U+A8D7", "U+A8D8", "U+A8D9", "U+A900", "U+A901",
     "U+A902", "U+A903", "U+A904", "U+A905", "U+A906", "U+A907", "U+A908", "U+A909",
     "U+A9D0", "U+A9D1", "U+A9D2", "U+A9D3", "U+A9D4", "U+A9D5", "U+A9D6", "U+A9D7",
     "U+A9D8", "U+A9D9", "U+A9F0", "U+A9F1", "U+A9F2", "U+A9F3", "U+A9F4", "U+A9F5",
     "U+A9F6", "U+A9F7", "U+A9F8", "U+A9F9", "U+AA50", "U+AA51", "U+AA52", "U+AA53",
     "U+AA54", "U+AA55", "U+AA56", "U+AA57", "U+AA58", "U+AA59", "U+ABF0", "U+ABF1",
     "U+ABF2", "U+ABF3", "U+ABF4", "U+ABF5", "U+ABF6", "U+ABF7", "U+ABF8", "U+ABF9",
     "U+FF10", "U+FF11", "U+FF12", "U+FF13", "U+FF14", "U+FF15", "U+FF16", "U+FF17",
     "U+FF18", "U+FF19", "U+104A0", "U+104A1", "U+104A2", "U+104A3", "U+104A4", "U+104A5",
     "U+104A6", "U+104A7", "U+104A8", "U+104A9", "U+10D30", "U+10D31", "U+10D32", "U+10D33",
     "U+10D34", "U+10D35", "U+10D36", "U+10D37", "U+10D38", "U+10D39", "U+11066", "U+11067",
     "U+11068", "U+11069", "U+1106A", "U+1106B", "U+1106C", "U+1106D", "U+1106E", "U+1106F",
     "U+110F0", "U+110F1", "U+110F2", "U+110F3", "U+110F4", "U+110F5", "U+110F6", "U+110F7",
     "U+110F8", "U+110F9", "U+11136", "U+11137", "U+11138", "U+11139", "U+1113A", "U+1113B",
     "U+1113C", "U+1113D", "U+1113E", "U+1113F", "U+111D0", "U+111D1", "U+111D2", "U+111D3",
     "U+111D4", "U+111D5", "U+111D6", "U+111D7", "U+111D8", "U+111D9", "U+112F0", "U+112F1",
     "U+112F2", "U+112F3", "U+112F4", "U+112F5", "U+112F6", "U+112F7", "U+112F8", "U+112F9",
     "U+11450", "U+11451", "U+11452", "U+11453", "U+11454", "U+11455", "U+11456", "U+11457",
     "U+11458", "U+11459", "U+114D0", "U+114D1", "U+114D2", "U+114D3", "U+114D4", "U+114D5",
     "U+114D6", "U+114D7", "U+114D8", "U+114D9", "U+11650", "U+11651", "U+11652", "U+11653",
     "U+11654", "U+11655", "U+11656", "U+11657", "U+11658", "U+11659", "U+116C0", "U+116C1",
     "U+116C2", "U+116C3", "U+116C4", "U+116C5", "U+116C6", "U+116C7", "U+116C8", "U+116C9",
     "U+11730", "U+11731", "U+11732", "U+11733", "U+11734", "U+11735", "U+11736", "U+11737",
     "U+11738", "U+11739", "U+118E0", "U+118E1", "U+118E2", "U+118E3", "U+118E4", "U+118E5",
     "U+118E6", "U+118E7", "U+118E8", "U+118E9", "U+11950", "U+11951", "U+11952", "U+11953",
     "U+11954", "U+11955", "U+11956", "U+11957", "U+11958", "U+11959", "U+11C50", "U+11C51",
     "U+11C52", "U+11C53", "U+11C54", "U+11C55", "U+11C56", "U+11C57", "U+11C58", "U+11C59",
     "U+11D50", "U+11D51", "U+11D52", "U+11D53", "U+11D54", "U+11D55", "U+11D56", "U+11D57",
     "U+11D58", "U+11D59", "U+11DA0", "U+11DA1", "U+11DA2", "U+11DA3", "U+11DA4", "U+11DA5",
     "U+11DA6", "U+11DA7", "U+11DA8", "U+11DA9", "U+16A60", "U+16A61", "U+16A62", "U+16A63",
     "U+16A64", "U+16A65", "U+16A66", "U+16A67", "U+16A68", "U+16A69", "U+16AC0", "U+16AC1",
     "U+16AC2", "U+16AC3", "U+16AC4", "U+16AC5", "U+16AC6", "U+16AC7", "U+16AC8", "U+16AC9",
     "U+16B50", "U+16B51", "U+16B52", "U+16B53", "U+16B54", "U+16B55", "U+16B56", "U+16B57",
     "U+16B58", "U+16B59", "U+1D7CE", "U+1D7CF", "U+1D7D0", "U+1D7D1", "U+1D7D2", "U+1D7D3",
     "U+1D7D4", "U+1D7D5", "U+1D7D6", "U+1D7D7", "U+1D7D8", "U+1D7D9", "U+1D7DA", "U+1D7DB",
     "U+1D7DC", "U+1D7DD", "U+1D7DE", "U+1D7DF", "U+1D7E0", "U+1D7E1", "U+1D7E2", "U+1D7E3",
     "U+1D7E4", "U+1D7E5", "U+1D7E6", "U+1D7E7", "U+1D7E8", "U+1D7E9", "U+1D7EA", "U+1D7EB",
     "U+1D7EC", "U+1D7ED", "U+1D7EE", "U+1D7EF", "U+1D7F0", "U+1D7F1", "U+1D7F2", "U+1D7F3",
     "U+1D7F4", "U+1D7F5", "U+1D7F6", "U+1D7F7", "U+1D7F8", "U+1D7F9", "U+1D7FA", "U+1D7FB",
     "U+1D7FC", "U+1D7FD", "U+1D7FE", "U+1D7FF", "U+1E140", "U+1E141", "U+1E142", "U+1E143",
     "U+1E144", "U+1E145", "U+1E146", "U+1E147", "U+1E148", "U+1E149", "U+1E2F0", "U+1E2F1",
     "U+1E2F2", "U+1E2F3", "U+1E2F4", "U+1E2F5", "U+1E2F6", "U+1E2F7", "U+1E2F8", "U+1E2F9",
     "U+1E950", "U+1E951", "U+1E952", "U+1E953", "U+1E954", "U+1E955", "U+1E956", "U+1E957",
     "U+1E958", "U+1E959", "U+1FBF0", "U+1FBF1", "U+1FBF2", "U+1FBF3", "U+1FBF4", "U+1FBF5",
     "U+1FBF6", "U+1FBF7", "U+1FBF8", "U+1FBF9"}

\* the characters with a digit value that are no decimal digits (superscripts,
\* circled and parenthesized digits, ...), all 128 of them
OtherDigits ==
    {"U+00B2", "U+00B3", "U+00B9", "U+1369", "U+136A", "U+136B", "U+136C", "U+136D",
     "U+136E", "U+136F", "U+1370", "U+1371", "U+19DA", "U+2070", "U+2074", "U+2075",
     "U+2076", "U+2077", "U+2078", "U+2079", "U+2080", "U+2081", "U+2082", "U+2083",
     "U+2084", "U+2085", "U+2086", "U+2087", "U+2088", "U+2089", "U+2460", "U+2461",
     "U+2462", "U+2463", "U+2464", "U+2465", "U+2466", "U+2467", "U+2468", "U+2474",
     "U+2475", "U+2476", "U+2477", "U+2478", "U+2479", "U+247A", "U+247B", "U+247C",
     "U+2488", "U+2489", "U+248A", "U+248B", "U+248C", "U+248D", "U+248E", "U+248F",
     "U+2490", "U+24EA", "U+24F5", "U+24F6", "U+24F7", "U+24F8", "U+24F9", "U+24FA",
     "U+24FB", "U+24FC", "U+24FD", "U+24FF", "U+2776", "U+2777", "U+2778", "U+2779",
     "U+277A", "U+277B", "U+277C", "U+277D", "U+277E", "U+2780", "U+2781", "U+2782",
     "U+2783", "U+2784", "U+2785", "U+2786", "U+2787", "U+2788", "U+278A", "U+278B",
     "U+278C", "U+278D", "U+278E", "U+278F", "U+2790", "U+2791", "U+2792", "U+10A40",
     "U+10A41", "U+10A42", "U+10A43", "U+10E60", "U+10E61", "U+10E62", "U+10E63", "U+10E64",
     "U+10E65", "U+10E66", "U+10E67", "U+10E68", "U+11052", "U+11053", "U+11054", "U+11055",
     "U+11056", "U+11057", "U+11058", "U+11059", "U+1105A", "U+1F100", "U+1F101", "U+1F102",
     "U+1F103", "U+1F104", "U+1F105", "U+1F106", "U+1F107", "U+1F108", "U+1F109", "U+1F10A"}

\* str.isdigit: the decimal digits and the other characters with a digit
\* value
Digits == DecimalDigits \cup OtherDigits

\* str.isspace, which str.strip(), str.split() and \s of a str pattern use
Whitespace ==
    {" ", "\t", "\n", "\r", "\f", "U+000B", "U+001C", "U+001D", "U+001E", "U+001F",
     "U+0085", "U+00A0", "U+1680", "U+2000", "U+2001", "U+2002", "U+2003", "U+2004",
     "U+2005", "U+2006", "U+2007", "U+2008", "U+2009", "U+200A", "U+2028", "U+2029",
     "U+202F", "U+205F", "U+3000"}

\* the character class [\d\s\+\-\(\)]
PhoneChars == DecimalDigits \cup Whitespace \cup {"+", "-", "(", ")"}

\* str.strip(): drop leading and trailing whitespace
RECURSIVE lstrip(_)
lstrip(s) == IF s # <<>> /\ Head(s) \in Whitespace THEN lstrip(Tail(s)) ELSE s

RECURSIVE rstrip(_)
rstrip(s) ==
    IF s # <<>> /\ s[Len(s)] \in Whitespace
    THEN rstrip(SubSeq(s, 1, Len(s) - 1))
    ELSE s

strip(s) == rstrip(lstrip(s))

\* ''.join(filter(str.isdigit, phone))
digits_of(s) == SelectSeq(s, LAMBDA c : c \in Digits)

\* F.text.regexp(r"^[\d\s\+\-\(\)]+$")
phone_regexp(s) == s # PyNone /\ s # <<>> /\ \A i \in 1..Len(s) : s[i] \in PhoneChars

\* str.split(): the maximal runs of non-whitespace characters
RECURSIVE split_ws(_, _)
split_ws(s, cur) ==
    IF s = <<>>
    THEN IF cur = <<>> THEN <<>> ELSE <<cur>>
    ELSE IF Head(s) \in Whitespace
         THEN IF cur = <<>>
              THEN split_ws(Tail(s), <<>>)
              ELSE <<cur>> \o split_ws(Tail(s), <<>>)
         ELSE split_ws(Tail(s), Append(cur, Head(s)))

split(s) == split_ws(s, <<>>)

\* " ".join(parts)
RECURSIVE join(_)
join(parts) ==
    IF parts = <<>> THEN <<>>
    ELSE IF Len(parts) = 1 THEN parts[1]
    ELSE parts[1] \o <<" ">> \o join(Tail(parts))

\* str.split(" "): split at every single space ("" gives [""])
RECURSIVE split_sp(_, _)
split_sp(s, cur) ==
    IF s = <<>>
    THEN <<cur>>
    ELSE IF Head(s) = " "
         THEN <<cur>> \o split_sp(Tail(s), <<>>)
         ELSE split_sp(Tail(s), Append(cur, Head(s)))

\* mutant of name_parts: the text is split at single spaces as it was typed
name_parts_raw(t) == split_sp(t, <<>>)

\* parts of set_name_full: " ".join(m.text.split()).split(" ")
name_parts(t) == split_sp(join(split(t)), <<>>)

\* f"{first} {last}" with first = parts[0], last = " ".join(parts[1:])
child_full_of(parts) == parts[1] \o <<" ">> \o join(Tail(parts))

\* ----------------------------------------------------------------- messages
TextMsg(t) == [text |-> t, contact |-> FALSE, phone_number |-> <<>>, user_id |-> NoId]
ContactMsg(p, id) == [text |-> PyNone, contact |-> TRUE, phone_number |-> p, user_id |-> id]

\* m.from_user.username (optional): user 1 has none
from_user_username(u) == IF u = 1 THEN PyNone ELSE <<"n", "i", "c", "k">>

\* ---------------------------------------------------------------- keyboards
\* "📱 Поделиться контактом" (request_contact button), "⬅️ В меню"
T_SHARE == <<"S", " ", "S", "h", "a", "r", "e">>
T_BACK == <<"B", " ", "M", "e", "n", "u">>

main_menu_kb == {T_ENROLL, T_ASK, T_CONTACTS}
phone_kb == {T_SHARE}
confirm_kb == {T_CONFIRM, T_EDIT}
ReplyKeyboardRemove == {}
NoMarkup == {}

\* ------------------------------------------------------------------- state
VARIABLES
    enrollments,    \* table enrollments: rows in id order
    group_limits,   \* table group_limits: age_group -> limit_value
    db_lock,        \* user whose connection holds SQLite's write lock, or NoId
    ADMIN_ID,       \* configuration read at startup: NoId when not set
    fsm_state,      \* per user: the FSM state of the session ("None" = no state)
    fsm_data,       \* per user: the FSM data dict (keys present -> text)
    pc,             \* per user: position of the handler processing its message
    current,        \* per user: local `current` of try_enroll
    limit_v,        \* per user: local `limit_v` of try_enroll
    ok,             \* per user: local `ok` of confirm ("none" outside)
    notify,         \* per user: outcome of the admin notification of confirm
    reply,          \* per user: the last message the bot answered with
    returned_true,  \* per age group: number of try_enroll calls that returned True
    notify_attempts, \* number of bot.send_message(ADMIN_ID, ...) calls made so far
    raised,         \* per user: the exception that ended its last handler, or "none"
    incoming,       \* SpecName, SpecPhone: the text of the message on its way to the step
    waiting         \* per user: its handlers suspended in a network call, by kind

vars == <<enrollments, group_limits, db_lock, ADMIN_ID, fsm_state, fsm_data,
          pc, current, limit_v, ok, notify, reply, returned_true,
          notify_attempts, raised, incoming, waiting>>

\* class Enroll(StatesGroup) plus the cleared state
EnrollStates == {"phone", "name_full", "age_group", "confirm"}
FsmStates == EnrollStates \cup {"None"}

EmptyData == [k \in {} |-> <<>>]

\* state.update_data(key=value) on the dict d
update_data(d, key, value) ==
    [k \in DOMAIN d \cup {key} |-> IF k = key THEN value ELSE d[k]]

\* d.get(key): None when the key is absent
dict_get(d, key) == IF key \in DOMAIN d THEN d[key] ELSE PyNone

Answer(msg, kb) == [msg |-> msg, kb |-> kb]

\* The network calls after which a handler has code left to run: m.answer
\* with the seats left (confirm, line 295), bot.send_message to the
\* administrator (line 304), m.answer with the success message (line 318)
\* and m.answer_contact (contacts, line 357).  A handler suspended in one of
\* them is waiting; the handlers of other updates run meanwhile.  An answer
\* that goes out and returns is told apart from one that ends by raising:
\* the user has the message of the first while the handler is suspended,
\* and never gets the message of the second.
WaitKinds ==
    {"denied_answer", "denied_answer_failing", "notify", "success_answer",
     "success_answer_failing", "contact_card"}

NoneWaiting == [k \in WaitKinds |-> 0]

NumWaiting(u) ==
    waiting[u]["denied_answer"] + waiting[u]["denied_answer_failing"]
      + waiting[u]["notify"] + waiting[u]["success_answer"]
      + waiting[u]["success_answer_failing"] + waiting[u]["contact_card"]

\* the number of handlers of one user suspended at a time is capped
HasRoom(u) == NumWaiting(u) < MaxWaiting

Suspend(u, k) == [waiting EXCEPT ![u][k] = @ + 1]

Finish(u, k) == [waiting EXCEPT ![u][k] = @ - 1]

\* ------------------------------------------------------------ store queries
\* SELECT COUNT(*) FROM enrollments WHERE age_group=?
count_in_group(age_group) ==
    Cardinality({i \in 1..Len(enrollments) : enrollments[i].age_group = age_group})

\* mutant of get_group_limit: the stored row is ignored
get_group_limit_default(age_group) == DEFAULT_GROUP_LIMIT

\* SELECT limit_value FROM group_limits WHERE age_group=?, else the default
get_group_limit(age_group) ==
    IF age_group \in DOMAIN group_limits
    THEN group_limits[age_group]
    ELSE DEFAULT_GROUP_LIMIT

max0(x) == IF x > 0 THEN x ELSE 0

get_remaining(age_group) == max0(get_group_limit(age_group) - count_in_group(age_group))

\* options of age_kb_dynamic, and its keyboard
age_options == {ag \in AgeGroupSet : get_remaining(ag) > 0}
age_kb_dynamic == IF age_options = {} THEN {T_BACK} ELSE age_options

\* all(v == 0 for v in left.values())
all_full == \A ag \in AgeGroupSet : get_remaining(ag) = 0

\* ------------------------------------------------------------------ router
\* The handlers in registration order; the first whose filters pass runs.
Route(st, m) ==
    IF m.text \in START_TEXTS THEN "cmd_start"
    ELSE IF m.text = T_ENROLL THEN "start_enroll"
    ELSE IF st = "phone" /\ m.contact THEN "set_phone_from_contact"
    ELSE IF st = "phone" /\ phone_regexp(m.text) THEN "set_phone_manual"
    ELSE IF st = "phone" THEN "invalid_phone"
    ELSE IF st = "name_full" THEN "set_name_full"
    ELSE IF st = "age_group" /\ m.text \in AgeGroupSet THEN "set_age"
    ELSE IF st = "confirm" /\ m.text = T_CONFIRM THEN "confirm"
    ELSE IF st = "confirm" /\ m.text = T_EDIT THEN "edit"
    ELSE IF m.text = T_ASK THEN "ask_question"
    ELSE IF m.text = T_CONTACTS THEN "contacts"
    ELSE "fallback"

\* The messages user u may send next: the menu triggers in every step, and
\* the inputs of the step it is in (valid, invalid and unrecognised ones).
MenuTexts == {T_START, T_MENU, T_ENROLL, T_ASK, T_CONTACTS}

ContactInputs(u) ==
    {ContactMsg(p, id) : p \in {PH_CONTACT_OK, PH_CONTACT_SHORT},
                         id \in {NoId, u, AdminUser}}

StepTexts(st) ==
    CASE st = "phone" -> {PH_MANUAL_OK, PH_MANUAL_SHORT, PH_CIRCLED, NM_ONE}
      [] st = "name_full" -> {NM_OK, NM_ONE}
      [] st = "age_group" -> AgeGroupSet \cup {NM_ONE}
      [] st = "confirm" -> {T_CONFIRM, T_EDIT, NM_ONE}
      [] OTHER -> {NM_ONE}

Inputs(u) ==
    {TextMsg(t) : t \in MenuTexts \cup StepTexts(fsm_state[u])}
    \cup (IF fsm_state[u] \in {"phone", "name_full"} THEN ContactInputs(u) ELSE {})

\* A message of user u is dispatched to handler h.  The handlers are tasks
\* of one event loop: the message is taken up when no handler of u is
\* running (pc[u] = "idle"); the handlers of u that are suspended in a
\* network call do not hold it back, and it is routed on the session state
\* of that moment.
Dispatch(u, m, h) == pc[u] = "idle" /\ Route(fsm_state[u], m) = h

\* no handler of u is suspended: its earlier messages have been handled
Quiet(u) == NumWaiting(u) = 0

\* The messages of a user who sends one message at a time, the next one when
\* the handler of the last has ended.
SeqInputs(u) == IF Quiet(u) THEN Inputs(u) ELSE {}

\* -------------------------------------------------------------------- Init
RECURSIVE SumLimits(_, _)
SumLimits(f, i) == IF i = 0 THEN 0 ELSE f[AGE_GROUPS[i]] + SumLimits(f, i - 1)

\* The limits an administrator may have configured (non-negative), bounded
\* by the total number of seats.
LimitConfigs ==
    {f \in [AgeGroupSet -> 0..MaxSeats] : SumLimits(f, Len(AGE_GROUPS)) <= MaxSeats}

\* The state after start-up: init_db has run on a store without enrollments,
\* every age group has its group_limits row, no user has a session.
Init ==
    /\ enrollments = <<>>
    /\ group_limits \in LimitConfigs
    /\ db_lock = NoId
    /\ ADMIN_ID \in {NoId, AdminUser}
    /\ fsm_state = [u \in Users |-> "None"]
    /\ fsm_data = [u \in Users |-> EmptyData]
    /\ pc = [u \in Users |-> "idle"]
    /\ current = [u \in Users |-> 0]
    /\ limit_v = [u \in Users |-> 0]
    /\ ok = [u \in Users |-> "none"]
    /\ notify = [u \in Users |-> "none"]
    /\ reply = [u \in Users |-> Answer("none", NoMarkup)]
    /\ returned_true = [ag \in AgeGroupSet |-> 0]
    /\ notify_attempts = 0
    /\ raised = [u \in Users |-> "none"]
    /\ incoming = <<>>
    /\ waiting = [u \in Users |-> NoneWaiting]

\* ----------------------------------------------------------------- init_db
\* mutant of seed_limit: the row is written whether or not one exists
seed_limit_replace(limits, ag) ==
    [k \in DOMAIN limits \cup {ag} |-> IF k = ag THEN DEFAULT_GROUP_LIMIT ELSE limits[k]]

\* SELECT 1 FROM group_limits WHERE age_group=?; if no row is found,
\* INSERT (ag, DEFAULT_GROUP_LIMIT)
seed_limit(limits, ag) ==
    IF ag \in DOMAIN limits
    THEN limits
    ELSE [k \in DOMAIN limits \cup {ag} |-> IF k = ag THEN DEFAULT_GROUP_LIMIT ELSE limits[k]]

\* for ag in AGE_GROUPS, from the i-th group on
RECURSIVE init_db_limits(_, _)
init_db_limits(limits, i) ==
    IF i > Len(AGE_GROUPS)
    THEN limits
    ELSE init_db_limits(seed_limit(limits, AGE_GROUPS[i]), i + 1)

\* init_db(): CREATE TABLE IF NOT EXISTS keeps the tables and their rows, then
\* the limits of the known age groups are seeded.  It runs when the process
\* starts, before any message is handled.
init_db ==
    /\ group_limits' = init_db_limits(group_limits, 1)
    /\ UNCHANGED <<enrollments, db_lock, ADMIN_ID, incoming, waiting, fsm_state, fsm_data, pc, current,
                   limit_v, ok, notify, reply, returned_true, notify_attempts, raised>>

\* The rows a store may hold from earlier runs of the bot.
StoredRows ==
    {[child_full |-> child_full_of(name_parts(NM_OK)),
      age_group |-> ag,
      phone |-> ph,
      tg_user_id |-> u,
      tg_username |-> from_user_username(u)] :
        ag \in AgeGroupSet, ph \in {strip(PH_MANUAL_OK), PH_CONTACT_SHORT}, u \in Users}

\* The store the process finds when it starts: no database file (both tables
\* empty once created) or the file of an earlier run, whose group_limits may
\* lack the row of an age group and whose limits an administrator has set.
InitStore ==
    /\ enrollments \in UNION {[1..n -> StoredRows] : n \in 0..MaxSeats}
    /\ group_limits \in UNION {[D -> 0..MaxSeats] : D \in SUBSET AgeGroupSet}
    /\ db_lock = NoId
    /\ ADMIN_ID \in {NoId, AdminUser}
    /\ fsm_state = [u \in Users |-> "None"]
    /\ fsm_data = [u \in Users |-> EmptyData]
    /\ pc = [u \in Users |-> "idle"]
    /\ current = [u \in Users |-> 0]
    /\ limit_v = [u \in Users |-> 0]
    /\ ok = [u \in Users |-> "none"]
    /\ notify = [u \in Users |-> "none"]
    /\ reply = [u \in Users |-> Answer("none", NoMarkup)]
    /\ returned_true = [ag \in AgeGroupSet |-> 0]
    /\ notify_attempts = 0
    /\ raised = [u \in Users |-> "none"]
    /\ incoming = <<>>
    /\ waiting = [u \in Users |-> NoneWaiting]

\* ---------------------------------------------------------------- handlers
\* What a handler that only touches u's session and answers leaves alone.
SessionOnly ==
    UNCHANGED <<enrollments, group_limits, db_lock, ADMIN_ID, incoming, waiting, pc, current,
                limit_v, ok, notify, returned_true, notify_attempts>>

\* The handler of u's message runs to its end without an exception.
Returned(u) == raised' = [raised EXCEPT ![u] = "none"]

\* mutant of cmd_start: the state is reset but the data is kept
cmd_start_keeps_data(u, m) ==
    /\ Dispatch(u, m, "cmd_start")
    /\ fsm_state' = [fsm_state EXCEPT ![u] = "None"]
    /\ reply' = [reply EXCEPT ![u] = Answer("greeting", main_menu_kb)]
    /\ UNCHANGED fsm_data
    /\ SessionOnly
    /\ Returned(u)

\* state.clear(): no state, empty data
cmd_start(u, m) ==
    /\ Dispatch(u, m, "cmd_start")
    /\ fsm_state' = [fsm_state EXCEPT ![u] = "None"]
    /\ fsm_data' = [fsm_data EXCEPT ![u] = EmptyData]
    /\ reply' = [reply EXCEPT ![u] = Answer("greeting", main_menu_kb)]
    /\ SessionOnly
    /\ Returned(u)

start_enroll(u, m) ==
    /\ Dispatch(u, m, "start_enroll")
    /\ fsm_state' = [fsm_state EXCEPT ![u] = "phone"]
    /\ fsm_data' = [fsm_data EXCEPT ![u] = EmptyData]
    /\ reply' = [reply EXCEPT ![u] = Answer("share_contact", phone_kb)]
    /\ SessionOnly
    /\ Returned(u)

\* m.contact.user_id is None or m.contact.user_id == m.from_user.id
contact_accepted(u, m) == m.user_id = NoId \/ m.user_id = u

\* mutant of set_phone_from_contact: the state advances, the phone is not stored
set_phone_from_contact_no_store(u, m) ==
    /\ Dispatch(u, m, "set_phone_from_contact")
    /\ IF contact_accepted(u, m)
       THEN /\ fsm_state' = [fsm_state EXCEPT ![u] = "name_full"]
            /\ reply' = [reply EXCEPT ![u] = Answer("enter_name", ReplyKeyboardRemove)]
            /\ UNCHANGED fsm_data
       ELSE /\ reply' = [reply EXCEPT ![u] = Answer("share_own_contact", NoMarkup)]
            /\ UNCHANGED <<fsm_state, fsm_data>>
    /\ SessionOnly
    /\ Returned(u)

set_phone_from_contact(u, m) ==
    /\ Dispatch(u, m, "set_phone_from_contact")
    /\ IF contact_accepted(u, m)
       THEN /\ fsm_data' = [fsm_data EXCEPT ![u] = update_data(@, "phone", m.phone_number)]
            /\ fsm_state' = [fsm_state EXCEPT ![u] = "name_full"]
            /\ reply' = [reply EXCEPT ![u] = Answer("enter_name", ReplyKeyboardRemove)]
       ELSE /\ reply' = [reply EXCEPT ![u] = Answer("share_own_contact", NoMarkup)]
            /\ UNCHANGED <<fsm_state, fsm_data>>
    /\ SessionOnly
    /\ Returned(u)

\* mutant of phone_too_short: five digits are enough
phone_too_short_lenient(phone) == Len(digits_of(phone)) < 5

\* len(digits) < 10
phone_too_short(phone) == Len(digits_of(phone)) < 10

set_phone_manual(u, m) ==
    /\ Dispatch(u, m, "set_phone_manual")
    /\ LET phone == strip(m.text) IN
       IF phone_too_short(phone)
       THEN /\ reply' = [reply EXCEPT ![u] = Answer("phone_too_short", NoMarkup)]
            /\ UNCHANGED <<fsm_state, fsm_data>>
       ELSE /\ fsm_data' = [fsm_data EXCEPT ![u] = update_data(@, "phone", phone)]
            /\ fsm_state' = [fsm_state EXCEPT ![u] = "name_full"]
            /\ reply' = [reply EXCEPT ![u] = Answer("enter_name", ReplyKeyboardRemove)]
    /\ SessionOnly
    /\ Returned(u)

invalid_phone(u, m) ==
    /\ Dispatch(u, m, "invalid_phone")
    /\ reply' = [reply EXCEPT ![u] = Answer("phone_format", NoMarkup)]
    /\ UNCHANGED <<fsm_state, fsm_data>>
    /\ SessionOnly
    /\ Returned(u)

\* m.text is None for a message without text: m.text.split() raises before
\* anything is written or answered.
set_name_full(u, m) ==
    /\ Dispatch(u, m, "set_name_full")
    /\ IF m.text = PyNone
       THEN /\ raised' = [raised EXCEPT ![u] = "AttributeError"]
            /\ UNCHANGED <<fsm_state, fsm_data, reply>>
       ELSE LET parts == name_parts(m.text) IN
            IF Len(parts) < 2
            THEN /\ reply' = [reply EXCEPT ![u] = Answer("name_and_surname", NoMarkup)]
                 /\ UNCHANGED <<fsm_state, fsm_data>>
            ELSE /\ fsm_data' = [fsm_data EXCEPT
                                   ![u] = update_data(@, "child_full", child_full_of(parts))]
                 /\ fsm_state' = [fsm_state EXCEPT ![u] = "age_group"]
                 /\ reply' = [reply EXCEPT ![u] =
                                IF all_full
                                THEN Answer("all_groups_full", main_menu_kb)
                                ELSE Answer("choose_age_group", age_kb_dynamic)]
    /\ m.text # PyNone => Returned(u)
    /\ SessionOnly

\* update_data, set_state(Enroll.confirm), then the summary is built from
\* the data: d['child_full'] raises KeyError when the session has no child
\* name, after both writes and before the answer.
set_age(u, m) ==
    /\ Dispatch(u, m, "set_age")
    /\ fsm_data' = [fsm_data EXCEPT ![u] = update_data(@, "age_group", m.text)]
    /\ fsm_state' = [fsm_state EXCEPT ![u] = "confirm"]
    /\ IF "child_full" \in DOMAIN fsm_data[u]
       THEN /\ reply' = [reply EXCEPT ![u] = Answer("check_data", confirm_kb)]
            /\ Returned(u)
       ELSE /\ raised' = [raised EXCEPT ![u] = "KeyError"]
            /\ UNCHANGED reply
    /\ SessionOnly

\* confirm up to the call of try_enroll: d = state.get_data() is the
\* session's data; d["child_full"] or d["age_group"] raises KeyError when
\* the key is missing, before try_enroll is entered.  Nothing suspends the
\* handler until try_enroll has returned.
confirm(u, m) ==
    /\ Dispatch(u, m, "confirm")
    /\ HasRoom(u)
    /\ IF {"child_full", "age_group"} \subseteq DOMAIN fsm_data[u]
       THEN /\ pc' = [pc EXCEPT ![u] = "te_begin"]
            /\ Returned(u)
       ELSE /\ raised' = [raised EXCEPT ![u] = "KeyError"]
            /\ UNCHANGED pc
    /\ UNCHANGED <<enrollments, group_limits, db_lock, ADMIN_ID, fsm_state,
                   fsm_data, current, limit_v, ok, notify, reply, returned_true,
                   notify_attempts, incoming, waiting>>

\* ------------------------------------------------------------- try_enroll
\* mutant of enroll_row: the name and the phone are passed in each other's place
enroll_row_swapped(u) ==
    [child_full |-> dict_get(fsm_data[u], "phone"),
     age_group |-> fsm_data[u]["age_group"],
     phone |-> fsm_data[u]["child_full"],
     tg_user_id |-> u,
     tg_username |-> from_user_username(u)]

\* The arguments of the call made by confirm for user u.
enroll_row(u) ==
    [child_full |-> fsm_data[u]["child_full"],
     age_group |-> fsm_data[u]["age_group"],
     phone |-> dict_get(fsm_data[u], "phone"),
     tg_user_id |-> u,
     tg_username |-> from_user_username(u)]

\* mutant of write_lock_free: BEGIN (deferred) does not wait for the lock
write_lock_ignored == TRUE

\* BEGIN IMMEDIATE takes SQLite's write lock; it waits while another
\* connection holds it.
write_lock_free == db_lock = NoId

te_begin(u) ==
    /\ pc[u] = "te_begin"
    /\ write_lock_free
    /\ db_lock' = u
    /\ pc' = [pc EXCEPT ![u] = "te_count"]
    /\ UNCHANGED <<enrollments, group_limits, ADMIN_ID, fsm_state, fsm_data,
                   current, limit_v, ok, notify, reply, returned_true,
                   notify_attempts, raised, incoming, waiting>>

te_count(u) ==
    /\ pc[u] = "te_count"
    /\ current' = [current EXCEPT ![u] = count_in_group(fsm_data[u]["age_group"])]
    /\ pc' = [pc EXCEPT ![u] = "te_limit"]
    /\ UNCHANGED <<enrollments, group_limits, db_lock, ADMIN_ID, fsm_state,
                   fsm_data, limit_v, ok, notify, reply, returned_true,
                   notify_attempts, raised, incoming, waiting>>

te_limit(u) ==
    /\ pc[u] = "te_limit"
    /\ limit_v' = [limit_v EXCEPT ![u] = get_group_limit(fsm_data[u]["age_group"])]
    /\ pc' = [pc EXCEPT ![u] = "te_check"]
    /\ UNCHANGED <<enrollments, group_limits, db_lock, ADMIN_ID, fsm_state,
                   fsm_data, current, ok, notify, reply, returned_true,
                   notify_attempts, raised, incoming, waiting>>

\* mutant of at_capacity: the comparison is strict
at_capacity_strict(cur, lim) == cur > lim

\* if current >= limit_v
at_capacity(cur, lim) == cur >= lim

\* return False: the connection's context exits, the empty transaction
\* commits and the write lock is released.
te_return_false(u) ==
    /\ pc[u] = "te_check"
    /\ at_capacity(current[u], limit_v[u])
    /\ db_lock' = NoId
    /\ ok' = [ok EXCEPT ![u] = "False"]
    /\ current' = [current EXCEPT ![u] = 0]
    /\ limit_v' = [limit_v EXCEPT ![u] = 0]
    /\ pc' = [pc EXCEPT ![u] = "denied"]
    /\ UNCHANGED <<enrollments, group_limits, ADMIN_ID, fsm_state, fsm_data,
                   notify, reply, returned_true,
                   notify_attempts, raised, incoming, waiting>>

\* INSERT, return True: the context exits, the row is committed (it becomes
\* visible to the other connections) and the write lock is released.
te_insert(u) ==
    /\ pc[u] = "te_check"
    /\ ~at_capacity(current[u], limit_v[u])
    /\ enrollments' = Append(enrollments, enroll_row(u))
    /\ db_lock' = NoId
    /\ ok' = [ok EXCEPT ![u] = "True"]
    /\ returned_true' = [returned_true EXCEPT ![fsm_data[u]["age_group"]] = @ + 1]
    /\ current' = [current EXCEPT ![u] = 0]
    /\ limit_v' = [limit_v EXCEPT ![u] = 0]
    /\ pc' = [pc EXCEPT ![u] = "notify"]
    /\ UNCHANGED <<group_limits, ADMIN_ID, fsm_state, fsm_data, notify, reply,
                   notify_attempts, raised, incoming, waiting>>

\* mutant of te_raise: the error is swallowed and the call counts as admitted
te_raise_admits(u) ==
    /\ pc[u] \in {"te_begin", "te_count", "te_limit", "te_check"}
    /\ db_lock' = IF db_lock = u THEN NoId ELSE db_lock
    /\ current' = [current EXCEPT ![u] = 0]
    /\ limit_v' = [limit_v EXCEPT ![u] = 0]
    /\ ok' = [ok EXCEPT ![u] = "True"]
    /\ pc' = [pc EXCEPT ![u] = "notify"]
    /\ raised' = [raised EXCEPT ![u] = "OperationalError"]
    /\ UNCHANGED <<enrollments, group_limits, ADMIN_ID, incoming, waiting, fsm_state, fsm_data,
                   notify, reply, returned_true, notify_attempts>>

\* An sqlite3 error in BEGIN IMMEDIATE, in either SELECT or in the INSERT:
\* the connection's context rolls back, which releases the write lock if the
\* connection holds it; the exception leaves try_enroll and confirm, which
\* has no handler for it, so nothing is answered and the session is as it was.
te_raise(u) ==
    /\ pc[u] \in {"te_begin", "te_count", "te_limit", "te_check"}
    /\ db_lock' = IF db_lock = u THEN NoId ELSE db_lock
    /\ current' = [current EXCEPT ![u] = 0]
    /\ limit_v' = [limit_v EXCEPT ![u] = 0]
    /\ pc' = [pc EXCEPT ![u] = "idle"]
    /\ raised' = [raised EXCEPT ![u] = "OperationalError"]
    /\ UNCHANGED <<enrollments, group_limits, ADMIN_ID, incoming, waiting, fsm_state, fsm_data,
                   ok, notify, reply, returned_true, notify_attempts>>

try_enroll(u) ==
    \/ te_begin(u)
    \/ te_count(u)
    \/ te_limit(u)
    \/ te_return_false(u)
    \/ te_insert(u)

\* mutant of confirm_denied: the administrator is notified of the denial too
confirm_denied_notifies(u) ==
    /\ pc[u] = "denied"
    /\ IF all_full
       THEN /\ reply' = [reply EXCEPT ![u] = Answer("all_groups_full_now", main_menu_kb)]
            /\ UNCHANGED waiting
       ELSE /\ reply' = [reply EXCEPT ![u] = Answer("choose_age_group_left", age_kb_dynamic)]
            /\ waiting' = Suspend(u, "denied_answer")
    /\ notify_attempts' = IF ADMIN_ID # NoId THEN notify_attempts + 1 ELSE notify_attempts
    /\ pc' = [pc EXCEPT ![u] = "idle"]
    /\ ok' = [ok EXCEPT ![u] = "none"]
    /\ UNCHANGED <<enrollments, group_limits, db_lock, ADMIN_ID, fsm_state, fsm_data,
                   current, limit_v, notify, returned_true, raised, incoming>>

\* if not ok: the remaining seats are read again.  With no seat left
\* anywhere the handler answers and returns.  Else it answers with the age
\* keyboard and is suspended in that call, with set_state(Enroll.age_group)
\* left to run when the call returns.
confirm_denied(u) ==
    /\ pc[u] = "denied"
    /\ IF all_full
       THEN /\ reply' = [reply EXCEPT ![u] = Answer("all_groups_full_now", main_menu_kb)]
            /\ UNCHANGED waiting
       ELSE \E delivered \in BOOLEAN :
                IF delivered
                THEN /\ reply' = [reply EXCEPT ![u] =
                                    Answer("choose_age_group_left", age_kb_dynamic)]
                     /\ waiting' = Suspend(u, "denied_answer")
                ELSE /\ waiting' = Suspend(u, "denied_answer_failing")
                     /\ UNCHANGED reply
    /\ pc' = [pc EXCEPT ![u] = "idle"]
    /\ ok' = [ok EXCEPT ![u] = "none"]
    /\ UNCHANGED <<enrollments, group_limits, db_lock, ADMIN_ID, fsm_state, fsm_data,
                   current, limit_v, notify, returned_true, notify_attempts, raised,
                   incoming>>

\* the answer with the seats left raises: the handler ends there, without
\* set_state(Enroll.age_group)
confirm_denied_raise(u) ==
    /\ pc[u] = "idle"
    /\ waiting[u]["denied_answer_failing"] > 0
    /\ raised' = [raised EXCEPT ![u] = "TelegramNetworkError"]
    /\ waiting' = Finish(u, "denied_answer_failing")
    /\ UNCHANGED <<enrollments, group_limits, db_lock, ADMIN_ID, fsm_state, fsm_data,
                   pc, current, limit_v, ok, notify, reply, returned_true,
                   notify_attempts, incoming>>

\* the answer with the seats left has returned: set_state(Enroll.age_group)
confirm_denied_resume(u) ==
    /\ pc[u] = "idle"
    /\ waiting[u]["denied_answer"] > 0
    /\ fsm_state' = [fsm_state EXCEPT ![u] = "age_group"]
    /\ waiting' = Finish(u, "denied_answer")
    /\ UNCHANGED <<enrollments, group_limits, db_lock, ADMIN_ID, fsm_data, pc,
                   current, limit_v, ok, notify, reply, returned_true,
                   notify_attempts, raised, incoming>>

\* try_enroll returned True.  if ADMIN_ID: bot.send_message is called and the
\* handler is suspended in it; else the handler is at the success answer.
confirm_notify(u) ==
    /\ pc[u] = "notify"
    /\ IF ADMIN_ID # NoId
       THEN /\ notify_attempts' = notify_attempts + 1
            /\ waiting' = Suspend(u, "notify")
            /\ pc' = [pc EXCEPT ![u] = "idle"]
            /\ UNCHANGED notify
       ELSE /\ notify' = [notify EXCEPT ![u] = "skipped"]
            /\ pc' = [pc EXCEPT ![u] = "answer"]
            /\ UNCHANGED <<notify_attempts, waiting>>
    /\ ok' = [ok EXCEPT ![u] = "none"]
    /\ UNCHANGED <<enrollments, group_limits, db_lock, ADMIN_ID, fsm_state,
                   fsm_data, current, limit_v, reply, returned_true, raised,
                   incoming>>

\* send_message has returned or raised; except Exception: logging.warning;
\* the handler is at the success answer either way.
confirm_notified(u) ==
    /\ pc[u] = "idle"
    /\ waiting[u]["notify"] > 0
    /\ \E outcome \in {"sent", "failed"} :
          notify' = [notify EXCEPT ![u] = outcome]
    /\ pc' = [pc EXCEPT ![u] = "answer"]
    /\ waiting' = Finish(u, "notify")
    /\ UNCHANGED <<enrollments, group_limits, db_lock, ADMIN_ID, fsm_state,
                   fsm_data, current, limit_v, ok, reply, returned_true,
                   notify_attempts, raised, incoming>>

\* await m.answer(success message): the handler is suspended in the call,
\* with state.clear() left to run when it returns; the user has the message
\* of a call that returns.
answer_success(u) ==
    /\ pc[u] = "answer"
    /\ \E delivered \in BOOLEAN :
          IF delivered
          THEN /\ reply' = [reply EXCEPT ![u] = Answer("enrolled", main_menu_kb)]
               /\ waiting' = Suspend(u, "success_answer")
          ELSE /\ waiting' = Suspend(u, "success_answer_failing")
               /\ UNCHANGED reply
    /\ pc' = [pc EXCEPT ![u] = "idle"]
    /\ UNCHANGED <<enrollments, group_limits, db_lock, ADMIN_ID, fsm_state,
                   fsm_data, current, limit_v, ok, notify, returned_true,
                   notify_attempts, raised, incoming>>

\* the success answer raises: the handler ends there, without state.clear()
\* (and with it the outcome of its notification, which notify holds while
\* the handler runs)
answer_success_raise(u) ==
    /\ pc[u] = "idle"
    /\ waiting[u]["success_answer_failing"] > 0
    /\ raised' = [raised EXCEPT ![u] = "TelegramNetworkError"]
    /\ notify' = [notify EXCEPT ![u] = "none"]
    /\ waiting' = Finish(u, "success_answer_failing")
    /\ UNCHANGED <<enrollments, group_limits, db_lock, ADMIN_ID, fsm_state,
                   fsm_data, pc, current, limit_v, ok, reply, returned_true,
                   notify_attempts, incoming>>

\* the success answer has returned: state.clear()
confirm_done(u) ==
    /\ pc[u] = "idle"
    /\ waiting[u]["success_answer"] > 0
    /\ fsm_state' = [fsm_state EXCEPT ![u] = "None"]
    /\ fsm_data' = [fsm_data EXCEPT ![u] = EmptyData]
    /\ notify' = [notify EXCEPT ![u] = "none"]
    /\ waiting' = Finish(u, "success_answer")
    /\ UNCHANGED <<enrollments, group_limits, db_lock, ADMIN_ID, pc, current,
                   limit_v, ok, reply, returned_true, notify_attempts, raised,
                   incoming>>

\* ------------------------------------------------------ remaining handlers
\* mutant of edit: the state is set back to the phone step, the data is kept
edit_keeps_data(u, m) ==
    /\ Dispatch(u, m, "edit")
    /\ fsm_state' = [fsm_state EXCEPT ![u] = "phone"]
    /\ reply' = [reply EXCEPT ![u] = Answer("start_over", phone_kb)]
    /\ UNCHANGED fsm_data
    /\ SessionOnly
    /\ Returned(u)

\* state.clear(); set_state(Enroll.phone)
edit(u, m) ==
    /\ Dispatch(u, m, "edit")
    /\ fsm_state' = [fsm_state EXCEPT ![u] = "phone"]
    /\ fsm_data' = [fsm_data EXCEPT ![u] = EmptyData]
    /\ reply' = [reply EXCEPT ![u] = Answer("start_over", phone_kb)]
    /\ SessionOnly
    /\ Returned(u)

\* whether build_chat_url() returns a link
has_chat_url == DIRECTOR_USERNAME # PyNone \/ ADMIN_ID # NoId

ask_question(u, m) ==
    /\ Dispatch(u, m, "ask_question")
    /\ fsm_state' = [fsm_state EXCEPT ![u] = "None"]
    /\ fsm_data' = [fsm_data EXCEPT ![u] = EmptyData]
    /\ reply' = [reply EXCEPT ![u] =
                   IF has_chat_url
                   THEN Answer("write_in_telegram", {"url"})
                   ELSE Answer("no_link", NoMarkup)]
    /\ SessionOnly
    /\ Returned(u)

\* state.clear(), then m.answer_contact: the card is sent best effort (a
\* failure is logged) and the handler is suspended in the call, with the
\* text answer left to send.
contacts(u, m) ==
    /\ Dispatch(u, m, "contacts")
    /\ HasRoom(u)
    /\ fsm_state' = [fsm_state EXCEPT ![u] = "None"]
    /\ fsm_data' = [fsm_data EXCEPT ![u] = EmptyData]
    /\ \E card_sent \in BOOLEAN :
          reply' = IF card_sent
                   THEN [reply EXCEPT ![u] = Answer("contact_card", NoMarkup)]
                   ELSE reply
    /\ waiting' = Suspend(u, "contact_card")
    /\ Returned(u)
    /\ UNCHANGED <<enrollments, group_limits, db_lock, ADMIN_ID, pc, current,
                   limit_v, ok, notify, returned_true, notify_attempts, incoming>>

\* m.answer_contact has returned or raised: the text answer
contacts_answer(u) ==
    /\ pc[u] = "idle"
    /\ waiting[u]["contact_card"] > 0
    /\ reply' = [reply EXCEPT ![u] =
                   Answer("director_contacts", IF has_chat_url THEN {"url"} ELSE NoMarkup)]
    /\ waiting' = Finish(u, "contact_card")
    /\ UNCHANGED <<enrollments, group_limits, db_lock, ADMIN_ID, fsm_state,
                   fsm_data, pc, current, limit_v, ok, notify, returned_true,
                   notify_attempts, raised, incoming>>

fallback(u, m) ==
    /\ Dispatch(u, m, "fallback")
    /\ reply' = [reply EXCEPT ![u] = Answer("choose_action", main_menu_kb)]
    /\ UNCHANGED <<fsm_state, fsm_data>>
    /\ SessionOnly
    /\ Returned(u)

\* ----------------------------------------------------------- specifications
\* Spec: the whole dialogue of one user from start-up, with every input, the
\* user sending one message at a time.  Sessions are keyed by user and share
\* nothing but the store, which only try_enroll writes; the contention of
\* several users on the store is the subject of SpecEnroll below, and the
\* messages of one user that overlap are the subject of SpecOverlap.
FirstUser == CHOOSE u \in Users : \A v \in Users : u <= v

Next ==
    \E u \in {FirstUser} :
        \/ \E m \in SeqInputs(u) : cmd_start(u, m)
        \/ \E m \in SeqInputs(u) : start_enroll(u, m)
        \/ \E m \in SeqInputs(u) : set_phone_from_contact(u, m)
        \/ \E m \in SeqInputs(u) : set_phone_manual(u, m)
        \/ \E m \in SeqInputs(u) : invalid_phone(u, m)
        \/ \E m \in SeqInputs(u) : set_name_full(u, m)
        \/ \E m \in SeqInputs(u) : set_age(u, m)
        \/ \E m \in SeqInputs(u) : confirm(u, m)
        \/ \E m \in SeqInputs(u) : edit(u, m)
        \/ \E m \in SeqInputs(u) : ask_question(u, m)
        \/ \E m \in SeqInputs(u) : contacts(u, m)
        \/ \E m \in SeqInputs(u) : fallback(u, m)
        \/ try_enroll(u)
        \/ te_raise(u)
        \/ confirm_denied(u)
        \/ confirm_denied_resume(u)
        \/ confirm_denied_raise(u)
        \/ confirm_notify(u)
        \/ confirm_notified(u)
        \/ answer_success(u)
        \/ answer_success_raise(u)
        \/ confirm_done(u)
        \/ contacts_answer(u)

Spec == Init /\ [][Next]_vars

\* SpecOverlap: the user does not wait: a message may arrive while handlers
\* of its earlier messages are suspended in a network call (start_polling
\* handles every update as a task of its own, and the Dispatcher is built
\* without events isolation).  The user sends the start, enrollment and
\* contacts triggers in every step and the valid inputs of the step the
\* session is in.
OverlapInputs(u) ==
    {TextMsg(t) : t \in {T_START, T_ENROLL, T_CONTACTS} \cup
        CASE fsm_state[u] = "phone" -> {PH_MANUAL_OK}
          [] fsm_state[u] = "name_full" -> {NM_OK}
          [] fsm_state[u] = "age_group" -> AgeGroupSet
          [] fsm_state[u] = "confirm" -> {T_CONFIRM, T_EDIT}
          [] OTHER -> {}}

NextOverlap ==
    \E u \in {FirstUser} :
        \/ \E m \in OverlapInputs(u) : cmd_start(u, m)
        \/ \E m \in OverlapInputs(u) : start_enroll(u, m)
        \/ \E m \in OverlapInputs(u) : set_phone_manual(u, m)
        \/ \E m \in OverlapInputs(u) : invalid_phone(u, m)
        \/ \E m \in OverlapInputs(u) : set_name_full(u, m)
        \/ \E m \in OverlapInputs(u) : set_age(u, m)
        \/ \E m \in OverlapInputs(u) : confirm(u, m)
        \/ \E m \in OverlapInputs(u) : edit(u, m)
        \/ \E m \in OverlapInputs(u) : contacts(u, m)
        \/ try_enroll(u)
        \/ confirm_denied(u)
        \/ confirm_denied_resume(u)
        \/ confirm_denied_raise(u)
        \/ confirm_notify(u)
        \/ confirm_notified(u)
        \/ answer_success(u)
        \/ answer_success_raise(u)
        \/ confirm_done(u)
        \/ contacts_answer(u)

SpecOverlap == Init /\ [][NextOverlap]_vars

\* SpecEnroll: every user acts, from start-up.  Each user walks the dialogue
\* with valid inputs (enrollment trigger, a valid manual phone, a valid name,
\* either age group, confirm), one message at a time, so that the try_enroll
\* calls of several users run concurrently; a denied user picks an age group
\* and confirms again.  A user starts the enrollment once, as its first
\* message to the bot, and a user whose handler ended in an exception (it
\* got no answer) sends nothing more.
EnrollInputs(u) ==
    IF ~Quiet(u) \/ raised[u] # "none" THEN {}
    ELSE {TextMsg(t) : t \in
            CASE fsm_state[u] = "None" -> IF reply[u].msg = "none" THEN {T_ENROLL} ELSE {}
              [] fsm_state[u] = "phone" -> {PH_MANUAL_OK}
              [] fsm_state[u] = "name_full" -> {NM_OK}
              [] fsm_state[u] = "age_group" -> AgeGroupSet
              [] OTHER -> {T_CONFIRM}}

NextEnroll ==
    \E u \in Users :
        \/ \E m \in EnrollInputs(u) : start_enroll(u, m)
        \/ \E m \in EnrollInputs(u) : set_phone_manual(u, m)
        \/ \E m \in EnrollInputs(u) : set_name_full(u, m)
        \/ \E m \in EnrollInputs(u) : set_age(u, m)
        \/ \E m \in EnrollInputs(u) : confirm(u, m)
        \/ try_enroll(u)
        \/ confirm_denied(u)
        \/ confirm_denied_resume(u)
        \/ confirm_denied_raise(u)
        \/ confirm_notify(u)
        \/ confirm_notified(u)
        \/ answer_success(u)
        \/ answer_success_raise(u)
        \/ confirm_done(u)

SpecEnroll == Init /\ [][NextEnroll]_vars

\* SpecInitDb: the start of the process on any store; init_db is called, and
\* called again at every later start.
NextInitDb == init_db

SpecInitDb == InitStore /\ [][NextInitDb]_vars

\* SpecName: the name step on every text of up to MaxNameLen characters made
\* of letters, spaces and carriage returns.  The session is in Enroll.name_full with its
\* phone, as set_phone_from_contact leaves it, and the user sends the text
\* `incoming` (again, when it is rejected).
NameAlphabet == {"a", "b", " ", "\r"}

NameTexts == UNION {[1..n -> NameAlphabet] : n \in 0..MaxNameLen}

InitName ==
    /\ enrollments = <<>>
    /\ group_limits \in LimitConfigs
    /\ db_lock = NoId
    /\ ADMIN_ID \in {NoId, AdminUser}
    /\ fsm_state = [u \in Users |-> IF u = FirstUser THEN "name_full" ELSE "None"]
    /\ fsm_data = [u \in Users |-> IF u = FirstUser
                                    THEN update_data(EmptyData, "phone", PH_CONTACT_OK)
                                    ELSE EmptyData]
    /\ pc = [u \in Users |-> "idle"]
    /\ current = [u \in Users |-> 0]
    /\ limit_v = [u \in Users |-> 0]
    /\ ok = [u \in Users |-> "none"]
    /\ notify = [u \in Users |-> "none"]
    /\ reply = [u \in Users |-> IF u = FirstUser
                                 THEN Answer("enter_name", ReplyKeyboardRemove)
                                 ELSE Answer("none", NoMarkup)]
    /\ returned_true = [ag \in AgeGroupSet |-> 0]
    /\ notify_attempts = 0
    /\ raised = [u \in Users |-> "none"]
    /\ incoming \in NameTexts
    /\ waiting = [u \in Users |-> NoneWaiting]

NextName == set_name_full(FirstUser, TextMsg(incoming))

SpecName == InitName /\ [][NextName]_vars

\* SpecPhone: the phone step on typed texts around the ten-digit threshold:
\* a run of ASCII digits, a run of decimal digits of another script, at most
\* one further character (a character with a digit value that is no decimal
\* digit, a formatting character, a letter), with or without whitespace
\* around.  The session is in Enroll.phone as start_enroll leaves it, and
\* the user sends the text `incoming` (again, when it is rejected).
RECURSIVE Rep(_, _)
Rep(c, n) == IF n = 0 THEN <<>> ELSE <<c>> \o Rep(c, n - 1)

PhoneTexts ==
    {lead \o Rep("7", a) \o Rep("U+0664", b) \o last \o trail :
        lead \in {<<>>, <<"\r">>}, a \in 0..MaxRun, b \in 0..MaxRun,
        last \in {<<>>, <<"U+2460">>, <<"-">>, <<"a">>},
        trail \in {<<>>, <<"U+00A0">>}}

InitPhone ==
    /\ enrollments = <<>>
    /\ group_limits \in LimitConfigs
    /\ db_lock = NoId
    /\ ADMIN_ID \in {NoId, AdminUser}
    /\ fsm_state = [u \in Users |-> IF u = FirstUser THEN "phone" ELSE "None"]
    /\ fsm_data = [u \in Users |-> EmptyData]
    /\ pc = [u \in Users |-> "idle"]
    /\ current = [u \in Users |-> 0]
    /\ limit_v = [u \in Users |-> 0]
    /\ ok = [u \in Users |-> "none"]
    /\ notify = [u \in Users |-> "none"]
    /\ reply = [u \in Users |-> IF u = FirstUser
                                 THEN Answer("share_contact", phone_kb)
                                 ELSE Answer("none", NoMarkup)]
    /\ returned_true = [ag \in AgeGroupSet |-> 0]
    /\ notify_attempts = 0
    /\ raised = [u \in Users |-> "none"]
    /\ incoming \in PhoneTexts
    /\ waiting = [u \in Users |-> NoneWaiting]

NextPhone ==
    \/ set_phone_manual(FirstUser, TextMsg(incoming))
    \/ invalid_phone(FirstUser, TextMsg(incoming))

SpecPhone == InitPhone /\ [][NextPhone]_vars

\* ------------------------------------------------------------------ claims
Min(a, b) == IF a <= b THEN a ELSE b

TryEnrollPcs == {"te_begin", "te_count", "te_limit", "te_check"}

\* user u's session holds age group ag
SessionGroup(u, ag) == "age_group" \in DOMAIN fsm_data[u] /\ fsm_data[u]["age_group"] = ag

\* a row of user u in group ag has been committed
Admitted(u, ag) ==
    \E i \in 1..Len(enrollments) :
        enrollments[i].tg_user_id = u /\ enrollments[i].age_group = ag

\* the last try_enroll of user u, for group ag, returned False
Denied(u, ag) ==
    /\ SessionGroup(u, ag)
    /\ \/ pc[u] = "denied"
       \/ /\ pc[u] = "idle"
          /\ reply[u].msg \in {"all_groups_full_now", "choose_age_group_left"}

\* C1: in every reachable state, for every age group, the number of
\* enrollments rows of the group is at most the group's configured limit,
\* however the steps of the users' try_enroll calls interleave.
CapacityInvariant ==
    \A ag \in AgeGroupSet : count_in_group(ag) <= get_group_limit(ag)

\* C1 witness: a group with seats is filled to its limit and a user whose
\* try_enroll ran against it was turned away.
CapacityReached ==
    \E ag \in AgeGroupSet, u \in Users :
        /\ get_group_limit(ag) >= 1
        /\ count_in_group(ag) = get_group_limit(ag)
        /\ Denied(u, ag)

\* C2: for concurrent try_enroll calls against an initially empty age group
\* with limit L, the number of rows of the group is at most L and equals
\* min(L, number of calls that returned True).
CountIsMinOfLimitAndSuccesses ==
    \A ag \in AgeGroupSet :
        /\ count_in_group(ag) <= group_limits[ag]
        /\ count_in_group(ag) = Min(group_limits[ag], returned_true[ag])

\* C2 witness: all calls have finished, more users called than the group has
\* seats: L calls returned True and another one False.
MoreCallsThanSeats ==
    \E ag \in AgeGroupSet, u \in Users :
        /\ group_limits[ag] >= 1
        /\ returned_true[ag] = group_limits[ag]
        /\ Denied(u, ag)
        /\ \A v \in Users : pc[v] = "idle"

\* rows of group ag that belong to neither a nor b
RowsOfOthers(a, b, ag) ==
    Cardinality({i \in 1..Len(enrollments) :
                    /\ enrollments[i].age_group = ag
                    /\ enrollments[i].tg_user_id \notin {a, b}})

\* C3: two users confirm for a group that has exactly one seat for the two
\* of them (its limit less the rows of the other users is 1): once
\* try_enroll has returned for both, exactly one call returned True and
\* added exactly one row, which fills the group; the other user was denied.
RaceAtConfirmation ==
    \A ag \in AgeGroupSet : \A a \in Users : \A b \in Users \ {a} :
        ( /\ group_limits[ag] - RowsOfOthers(a, b, ag) = 1
          /\ Admitted(a, ag) \/ Denied(a, ag)
          /\ Admitted(b, ag) \/ Denied(b, ag) )
        => /\ Admitted(a, ag) # Admitted(b, ag)
           /\ ~Admitted(a, ag) => Denied(a, ag)
           /\ ~Admitted(b, ag) => Denied(b, ag)
           /\ count_in_group(ag) - RowsOfOthers(a, b, ag) = 1
           /\ count_in_group(ag) = group_limits[ag]

\* C3 witness: both users confirmed for the group with one seat left; one is
\* admitted, the other was denied.
RaceDecided ==
    \E ag \in AgeGroupSet : \E a \in Users : \E b \in Users \ {a} :
        /\ group_limits[ag] - RowsOfOthers(a, b, ag) = 1
        /\ Admitted(a, ag)
        /\ Denied(b, ag)

\* C4 (as claimed): when try_enroll returned False, the confirm handler
\* leaves the session without state and data if every group is full, and in
\* Enroll.age_group otherwise.
DeniedGoesIdleOrAgeGroup ==
    [][ \A u \in Users :
          /\ (pc[u] = "denied" /\ pc'[u] = "idle" /\ all_full)
             => fsm_state'[u] = "None" /\ fsm_data'[u] = EmptyData
          /\ confirm_denied_resume(u) => fsm_state'[u] = "age_group" ]_vars

\* C5 (as claimed): a valid name received in Enroll.name_full while every
\* group is full ends with the session without state, with the apology and
\* without the age-group prompt.
FullAtNameGoesIdle ==
    [][ \A u \in Users : \A m \in Inputs(u) :
          ( /\ set_name_full(u, m)
            /\ m.text # PyNone
            /\ Len(name_parts(m.text)) >= 2
            /\ all_full )
          => /\ fsm_state'[u] = "None"
             /\ reply'[u].msg = "all_groups_full" ]_vars

\* C6 (as claimed): the step of try_enroll that returns True appends exactly
\* one row with the session's child name, age group and phone and the
\* sender's id, and changes the count of no other group; the handler of that
\* confirm ends, after its answer or with it, leaving the session without
\* state and data.
SuccessAddsOneRow ==
    [][ \A u \in Users :
          /\ (ok[u] # "True" /\ ok'[u] = "True")
             => /\ Len(enrollments') = Len(enrollments) + 1
                /\ SubSeq(enrollments', 1, Len(enrollments)) = enrollments
                /\ LET row == enrollments'[Len(enrollments')] IN
                     /\ row.child_full = fsm_data[u]["child_full"]
                     /\ row.age_group = fsm_data[u]["age_group"]
                     /\ row.phone = fsm_data[u]["phone"]
                     /\ row.tg_user_id = u
                /\ \A ag \in AgeGroupSet \ {fsm_data[u]["age_group"]} :
                     count_in_group(ag)' = count_in_group(ag)
                /\ group_limits' = group_limits
          /\ (pc[u] = "answer" /\ pc'[u] = "idle")
             => /\ NumWaiting(u)' = NumWaiting(u) + 1
                /\ enrollments' = enrollments
          /\ (confirm_done(u) \/ answer_success_raise(u))
             => /\ fsm_state'[u] = "None"
                /\ fsm_data'[u] = EmptyData
                /\ enrollments' = enrollments ]_vars

\* C7: while the group's count is at least its limit, the steps of a
\* try_enroll for that group insert no row and change no limit, and the call
\* returns False.
FullGroupRejects ==
    [][ \A u \in Users :
          ( /\ pc[u] \in TryEnrollPcs
            /\ pc'[u] # pc[u]
            /\ count_in_group(fsm_data[u]["age_group"])
                 >= group_limits[fsm_data[u]["age_group"]] )
          => /\ enrollments' = enrollments
             /\ group_limits' = group_limits
             /\ pc'[u] \notin TryEnrollPcs => ok'[u] = "False" ]_vars

\* C7 witness: try_enroll has just returned False for a full group that has
\* rows.
RejectedAtFullGroup ==
    \E u \in Users, ag \in AgeGroupSet :
        /\ pc[u] = "denied"
        /\ ok[u] = "False"
        /\ SessionGroup(u, ag)
        /\ count_in_group(ag) >= 1
        /\ count_in_group(ag) >= group_limits[ag]

\* the committed row of user u's running confirm
OwnRowCommitted(u) ==
    \E i \in 1..Len(enrollments) :
        /\ enrollments[i].tg_user_id = u
        /\ enrollments[i].child_full = fsm_data[u]["child_full"]
        /\ enrollments[i].age_group = fsm_data[u]["age_group"]
        /\ enrollments[i].phone = fsm_data[u]["phone"]

\* C8 (as claimed): a failed administrator notification leaves the store as
\* it is with the committed row in it and raises nothing: the handler is at
\* the success answer, as after a delivered notification.  The handler of
\* that confirm ends with the success message as the user's answer and with
\* the session without state and data.
NotifyFailureIsSwallowed ==
    [][ \A u \in Users :
          /\ (notify'[u] = "failed" /\ waiting'[u]["notify"] < waiting[u]["notify"])
             => /\ pc'[u] = "answer"
                /\ raised' = raised
                /\ reply' = reply
                /\ enrollments' = enrollments
                /\ group_limits' = group_limits
                /\ OwnRowCommitted(u)
          /\ (pc[u] = "answer" /\ notify[u] = "failed" /\ pc'[u] # pc[u])
             => /\ pc'[u] = "idle"
                /\ enrollments' = enrollments
                /\ group_limits' = group_limits
                /\ raised' = raised
                /\ NumWaiting(u)' = NumWaiting(u) + 1
          /\ (notify[u] = "failed" /\ (confirm_done(u) \/ answer_success_raise(u)))
             => /\ reply[u] = Answer("enrolled", main_menu_kb)
                /\ raised' = raised
                /\ fsm_state'[u] = "None"
                /\ fsm_data'[u] = EmptyData ]_vars

\* The message m of user u is handled: the step of the handler it is routed to.
Handle(u, m) ==
    LET h == Route(fsm_state[u], m) IN
    CASE h = "cmd_start" -> cmd_start(u, m)
      [] h = "start_enroll" -> start_enroll(u, m)
      [] h = "set_phone_from_contact" -> set_phone_from_contact(u, m)
      [] h = "set_phone_manual" -> set_phone_manual(u, m)
      [] h = "invalid_phone" -> invalid_phone(u, m)
      [] h = "set_name_full" -> set_name_full(u, m)
      [] h = "set_age" -> set_age(u, m)
      [] h = "confirm" -> confirm(u, m)
      [] h = "edit" -> edit(u, m)
      [] h = "ask_question" -> ask_question(u, m)
      [] h = "contacts" -> contacts(u, m)
      [] OTHER -> fallback(u, m)

\* C9: in every step, and without a step, the start/menu texts are routed to
\* cmd_start, and the handling of such a text leaves the session without
\* state and without data.
StartClearsSession ==
    [][ \A u \in Users : \A t \in START_TEXTS :
          /\ pc[u] = "idle" => Route(fsm_state[u], TextMsg(t)) = "cmd_start"
          /\ Handle(u, TextMsg(t))
             => /\ fsm_state'[u] = "None"
                /\ fsm_data'[u] = EmptyData
                /\ reply'[u].msg = "greeting" ]_vars

\* C9 witness: cmd_start has answered a user who had gone through the whole
\* dialogue before; the session has no state and no data.
StartAfterDialogue ==
    \E u \in Users, ag \in AgeGroupSet :
        /\ reply[u].msg = "greeting"
        /\ Admitted(u, ag)
        /\ fsm_state[u] = "None"
        /\ fsm_data[u] = EmptyData

\* C10 (as claimed): a session in Enroll.name_full holds a phone of at least
\* 10 digits, and so does every row whose phone is present.
PhoneHasTenDigits ==
    /\ \A u \in Users :
         fsm_state[u] = "name_full" => Len(digits_of(fsm_data[u]["phone"])) >= 10
    /\ \A i \in 1..Len(enrollments) :
         enrollments[i].phone # PyNone => Len(digits_of(enrollments[i].phone)) >= 10

\* the texts that reset or restart the dialogue from wherever they are handled
StartTriggers == START_TEXTS \cup {T_ENROLL}

\* number of whitespace-separated tokens of a text, counted at the token starts
TokenCount(t) ==
    Cardinality({i \in 1..Len(t) :
                    /\ t[i] \notin Whitespace
                    /\ i = 1 \/ t[i - 1] \in Whitespace})

\* An input that fails the validation of the step st, as C11 lists them: a
\* typed phone that is malformed or has fewer than 10 digits, a contact of
\* somebody else, a name of fewer than two tokens, a text that is no known
\* age group (and no menu trigger) in the age step.
ValidationFailure(st, u, m) ==
    \/ /\ st = "phone"
       /\ ~m.contact
       /\ m.text \notin StartTriggers
       /\ ~phone_regexp(m.text) \/ Len(digits_of(m.text)) < 10
    \/ /\ st = "phone"
       /\ m.contact
       /\ m.user_id \notin {NoId, u}
    \/ /\ st = "name_full"
       /\ ~m.contact
       /\ m.text \notin StartTriggers
       /\ TokenCount(m.text) < 2
    \/ /\ st = "age_group"
       /\ ~m.contact
       /\ m.text \notin AgeGroupSet \cup StartTriggers \cup {T_ASK, T_CONTACTS}

\* C11: handling an input that fails validation changes neither the step nor
\* the collected fields of the session, and writes nothing to the store; the
\* bot only answers.
ValidationFailureChangesNothing ==
    [][\A u \in Users : \A m \in Inputs(u) :
          (ValidationFailure(fsm_state[u], u, m) /\ Handle(u, m))
          => /\ UNCHANGED <<fsm_state, fsm_data, enrollments, group_limits>>
             /\ reply'[u].msg \in {"phone_format", "phone_too_short", "share_own_contact",
                                   "name_and_surname", "choose_action"}]_vars

\* C11 witness: a single-token name was rejected; the session is still in the
\* name step with the phone it had collected and no name.
SingleTokenNameRejected ==
    \E u \in Users :
        /\ fsm_state[u] = "name_full"
        /\ reply[u].msg = "name_and_surname"
        /\ DOMAIN fsm_data[u] = {"phone"}
        /\ raised[u] = "none"

\* C12: a call of init_db, on an empty or a populated store, leaves exactly
\* one group_limits row for every known age group, keeps the limit of every
\* row that existed, gives the default to the rows it adds, and leaves the
\* enrollments as they were; calling it again changes nothing.
InitDbIsIdempotentSeeding ==
    [][ /\ DOMAIN group_limits' = DOMAIN group_limits \cup AgeGroupSet
        /\ \A ag \in DOMAIN group_limits : group_limits'[ag] = group_limits[ag]
        /\ \A ag \in AgeGroupSet \ DOMAIN group_limits :
               group_limits'[ag] = DEFAULT_GROUP_LIMIT
        /\ enrollments' = enrollments
        /\ init_db_limits(group_limits', 1) = group_limits' ]_vars

\* C12 witness: init_db has run on a populated store that lacked the row of
\* one age group: that group has the default, the other kept its limit, and
\* the enrollments are there.
InitDbSeededMissingRow ==
    /\ DOMAIN group_limits = AgeGroupSet
    /\ \E ag \in AgeGroupSet : group_limits[ag] = DEFAULT_GROUP_LIMIT
    /\ \E ag \in AgeGroupSet : group_limits[ag] < DEFAULT_GROUP_LIMIT
    /\ enrollments # <<>>

\* C13: when the transaction of try_enroll fails before its commit (at the
\* lock, the count, the limit read or the insert), no row is added, the user
\* gets no answer (so no success message), no notification is attempted and
\* the session stays in the confirmation step with its fields: it is not
\* completed.  The handler has ended and the write lock is not held by it.
FailedTransactionLeavesNoTrace ==
    [][\A u \in Users :
          (pc[u] \in TryEnrollPcs /\ raised'[u] = "OperationalError")
          => /\ enrollments' = enrollments
             /\ reply' = reply
             /\ notify' = notify
             /\ notify_attempts' = notify_attempts
             /\ fsm_state'[u] = "confirm"
             /\ fsm_data' = fsm_data
             /\ pc'[u] = "idle"
             /\ db_lock' # u]_vars

\* C13 witness: the transaction of u's confirmation failed: the store has no
\* row, the last answer is still the summary, the session is in the
\* confirmation step with the three fields.
TransactionFailed ==
    \E u \in Users :
        /\ raised[u] = "OperationalError"
        /\ pc[u] = "idle"
        /\ fsm_state[u] = "confirm"
        /\ DOMAIN fsm_data[u] = {"phone", "child_full", "age_group"}
        /\ reply[u].msg = "check_data"
        /\ enrollments = <<>>
        /\ notify_attempts = 0

\* the answers that present the age groups to choose from
AgePrompts == {"choose_age_group", "choose_age_group_left"}

\* C14 (as claimed): a session moves from the age step to the confirmation
\* step only by selecting an age group that was offered to it: when the last
\* answer to the session is the presentation of the age groups, the group
\* selected is one of the groups on that keyboard; a known group that is not
\* on it does not advance the session.
OnlyOfferedGroupAdvances ==
    [][\A u \in Users :
          ( /\ fsm_state[u] = "age_group"
            /\ fsm_state'[u] = "confirm"
            /\ reply[u].msg \in AgePrompts )
          => fsm_data'[u]["age_group"] \in reply[u].kb]_vars

\* the texts with a handler of their own, whatever the step
Triggers == StartTriggers \cup {T_ASK, T_CONTACTS}

\* the inputs the step st accepts
ValidInput(st, u, m) ==
    \/ st = "phone" /\ m.contact /\ m.user_id \in {NoId, u}
    \/ st = "phone" /\ ~m.contact /\ phone_regexp(m.text) /\ Len(digits_of(m.text)) >= 10
    \/ st = "name_full" /\ ~m.contact /\ TokenCount(m.text) >= 2
    \/ st = "age_group" /\ m.text \in AgeGroupSet
    \/ st = "confirm" /\ m.text \in {T_CONFIRM, T_EDIT}

\* the answers that ask again for the input of the step st
RePrompts(st) ==
    CASE st = "phone" -> {"phone_format", "phone_too_short", "share_own_contact"}
      [] st = "name_full" -> {"name_and_surname"}
      [] st = "age_group" -> AgePrompts
      [] st = "confirm" -> {"check_data"}
      [] OTHER -> {}

\* C15 (as claimed): in every step of the dialogue, an input that is neither
\* a trigger nor valid for the step is answered with a re-prompt for the
\* input of that same step, and the step and the collected fields stay as
\* they are.
UnrecognisedInputRePrompts ==
    [][\A u \in Users : \A m \in Inputs(u) :
          ( /\ fsm_state[u] \in EnrollStates
            /\ m.text \notin Triggers
            /\ ~ValidInput(fsm_state[u], u, m)
            /\ Handle(u, m) )
          => /\ reply'[u].msg \in RePrompts(fsm_state[u])
             /\ raised'[u] = "none"
             /\ UNCHANGED <<fsm_state, fsm_data>>]_vars

\* C16: the edit trigger in the confirmation step clears every collected
\* field, moves the session to the phone step and writes nothing to the
\* store; a session in the phone step holds no field at all, so the fields a
\* later confirmation uses were all entered after the edit.
EditStartsOver ==
    [][\A u \in Users :
          /\ (fsm_state[u] = "confirm" /\ Handle(u, TextMsg(T_EDIT)))
             => /\ fsm_state'[u] = "phone"
                /\ fsm_data'[u] = EmptyData
                /\ reply'[u] = Answer("start_over", phone_kb)
                /\ UNCHANGED <<enrollments, group_limits>>
          /\ fsm_state'[u] = "phone" => fsm_data'[u] = EmptyData]_vars

\* C16 witness: the user edited at the confirmation step: the session is in
\* the phone step, asked for the phone again, with no field.
EditedAtConfirmation ==
    \E u \in Users :
        /\ fsm_state[u] = "phone"
        /\ reply[u].msg = "start_over"
        /\ fsm_data[u] = EmptyData

\* The tokens of a text joined by single spaces, computed in one pass over
\* the text: whitespace is skipped, and a space is put before each token
\* but the first.
RECURSIVE Collapse(_, _, _)
Collapse(t, out, gap) ==
    IF t = <<>> THEN out
    ELSE IF Head(t) \in Whitespace THEN Collapse(Tail(t), out, TRUE)
    ELSE Collapse(Tail(t),
                  IF gap /\ out # <<>> THEN out \o <<" ", Head(t)>> ELSE Append(out, Head(t)),
                  FALSE)

\* C17: the name step is left for the age step exactly when the text has at
\* least two whitespace-separated tokens; the child name stored is then the
\* tokens joined by single spaces, without leading or trailing whitespace.
\* With fewer than two tokens (the empty and the whitespace-only text
\* included) the session stays in the name step and no name is stored.
NameStepTakesTwoTokens ==
    [][\A u \in Users :
          set_name_full(u, TextMsg(incoming))
          => IF TokenCount(incoming) >= 2
             THEN /\ fsm_state'[u] = "age_group"
                  /\ DOMAIN fsm_data'[u] = {"phone", "child_full"}
                  /\ fsm_data'[u]["phone"] = fsm_data[u]["phone"]
                  /\ LET name == fsm_data'[u]["child_full"] IN
                       /\ name = Collapse(incoming, <<>>, FALSE)
                       /\ Head(name) \notin Whitespace
                       /\ name[Len(name)] \notin Whitespace
                       /\ \A i \in 1..Len(name) : name[i] \in Whitespace => name[i] = " "
                       /\ \A i \in 1..(Len(name) - 1) : ~(name[i] = " " /\ name[i + 1] = " ")
                       /\ TokenCount(name) = TokenCount(incoming)
             ELSE /\ fsm_state'[u] = "name_full"
                  /\ fsm_data'[u] = fsm_data[u]
                  /\ "child_full" \notin DOMAIN fsm_data'[u]
                  /\ reply'[u].msg = "name_and_surname"]_vars

\* C17 witness: a text of two tokens with a carriage return and a space between them
\* was taken: the session is in the age step and holds the two tokens
\* around one space.
TwoTokenNameStored ==
    \E u \in Users :
        /\ incoming = <<"a", "\r", " ", "b">>
        /\ fsm_state[u] = "age_group"
        /\ "child_full" \in DOMAIN fsm_data[u]
        /\ fsm_data[u]["child_full"] = <<"a", " ", "b">>

\* C18 (as claimed): the 'ask question' and 'contacts' triggers clear the
\* session in whichever step they are sent, the phone step and the name step
\* included: afterwards the session has no state and no field, so the trigger
\* text is stored neither as the phone nor as the child name.
AskAndContactsClearSession ==
    [][\A u \in Users : \A t \in {T_ASK, T_CONTACTS} :
          Handle(u, TextMsg(t))
          => /\ fsm_state'[u] = "None"
             /\ fsm_data'[u] = EmptyData]_vars

\* C19: a notification of the administrator is attempted only by a
\* confirmation whose try_enroll has committed its row and returned True
\* (the write lock is released by then), once; there is at most one attempt
\* per row of the store; a confirmation whose try_enroll returned False ends
\* without an attempt.
NotifyOnlyAfterCommit ==
    [][ /\ notify_attempts' # notify_attempts
           => /\ notify_attempts' = notify_attempts + 1
              /\ \E u \in Users :
                    /\ pc[u] = "notify"
                    /\ pc'[u] = "idle"
                    /\ ok[u] = "True"
                    /\ OwnRowCommitted(u)
                    /\ db_lock # u
                    /\ waiting'[u]["notify"] = waiting[u]["notify"] + 1
        /\ notify_attempts' <= Len(enrollments')
        /\ \A u \in Users :
              (ok[u] = "False" /\ pc'[u] # pc[u])
              => /\ notify_attempts' = notify_attempts
                 /\ waiting'[u]["notify"] = waiting[u]["notify"]
                 /\ pc'[u] = "idle" ]_vars

\* C19 witness: the user pressed confirm twice: the first confirmation was
\* admitted and the administrator was notified of it, once; the try_enroll
\* of the second has returned False.
NotifiedOncePerRow ==
    /\ notify_attempts = 1
    /\ Len(enrollments) = 1
    /\ \E u \in Users :
          /\ enrollments[1].tg_user_id = u
          /\ pc[u] = "denied"
          /\ ok[u] = "False"

\* C20: the fields of a session match its step: in the name step the phone
\* is set; in the age step the phone and the child name are set; in the
\* confirmation step the phone, the child name and the age group are set, so
\* the confirmation (and its try_enroll) never runs with a field missing; a
\* session without a state holds no field.
SessionFieldsMatchStep ==
    \A u \in Users :
        /\ fsm_state[u] = "name_full" => "phone" \in DOMAIN fsm_data[u]
        /\ fsm_state[u] = "age_group" => {"phone", "child_full"} \subseteq DOMAIN fsm_data[u]
        /\ fsm_state[u] = "confirm"
           => {"phone", "child_full", "age_group"} \subseteq DOMAIN fsm_data[u]
        /\ pc[u] # "idle"
           => /\ {"phone", "child_full", "age_group"} \subseteq DOMAIN fsm_data[u]
              /\ \A k \in DOMAIN fsm_data[u] : fsm_data[u][k] \notin {PyNone, <<>>}
        /\ fsm_state[u] = "None" => fsm_data[u] = EmptyData

\* C20 witness: a confirmation is running try_enroll with the three fields of
\* its session, the phone taken from a contact.
ConfirmationRunsWithAllFields ==
    \E u \in Users :
        /\ fsm_state[u] = "confirm"
        /\ pc[u] \in TryEnrollPcs
        /\ DOMAIN fsm_data[u] = {"phone", "child_full", "age_group"}
        /\ fsm_data[u]["phone"] = PH_CONTACT_OK

====
